---- MODULE Spec2Model ----
(***************************************************************************)
(* Scan orchestration of Aura_Map.                                         *)
(*                                                                         *)
(* The repository ships two scanner implementations with the same shape:   *)
(*   "app"    : backend/app.py - the HTTP routes start_scan / cancel_scan, *)
(*              the batch loop scan_ip_list and the NmapScanner class      *)
(*              embedded in app.py;                                        *)
(*   "module" : backend/nmap_scanner.py - the standalone NmapScanner with  *)
(*              scan_single_ip (with its cancelled check) and the method   *)
(*              cancel_scan (terminate, 1s sleep, kill).                   *)
(* The variable impl, fixed by Init, says which of the two a behaviour     *)
(* runs; everything else (registry, processes, thread positions) is shared *)
(* by both descriptions.                                                   *)
(*                                                                         *)
(* Threads: one worker thread per scan session id (the thread started by   *)
(* start_scan, or the caller of scan_single_ip), one request thread that   *)
(* serves cancel requests, and the scan subprocesses.  A step of the model *)
(* is one statement (or a run of statements touching no shared state) of   *)
(* one thread.                                                             *)
(***************************************************************************)
EXTENDS Naturals, Integers, Sequences, FiniteSets, TLC

\* scanning.max_concurrent_scans of the default configuration
MaxConcurrentScans == 5

\* Bounds of the model
MaxTargets == 2
MaxCancels == 1

\* Session ids that exist at all: one more than the configured limit.
AllSessions == 1..(MaxConcurrentScans + 1)
TargetIdx == 1..MaxTargets

VARIABLES
    impl,          \* "app" | "module"
    pc,            \* worker thread position, per session id
    idx,           \* index of the target the loop is at (1-based), per session
    total,         \* total_targets of the session
    completed,     \* the loop's local counter `completed`
    result,        \* status of the result scan_single_ip is returning
    failed,        \* stage at which the current scan_single_ip call hit an exception
    procs,         \* procs[s][i]: the subprocess spawned for target i of session s
    active_scans,  \* the registry: session id -> target index of the entry, 0 = absent
    events,        \* per session, the events emitted through socketio
    session_file,  \* per session, the persisted scan_session_<id>.json
    cpc,           \* cancel request thread position
    csid,          \* session id of the cancel request being served
    cjob,          \* target index of the process handle the cancel request read
    cret,          \* outcome of the last cancel request
    cpre,          \* history: the job was registered with a live process when the request began
    chit,          \* history: terminate() of this request reached a live process
    ncancel,       \* number of cancel requests made so far
    cancelledAt,   \* history: per session, target whose live process a successful cancel terminated
    engine,        \* whether the nmap executable can be run: "available" | "missing"
    sweep,         \* the thread running cleanup_abandoned_scans: its position and locals
    fn,            \* the pure function a behaviour applies ("none" while scans are orchestrated)
    arg,           \* its argument
    at,            \* its loop position
    ret            \* what it has built so far / returned

vars == <<impl, pc, idx, total, completed, result, failed, procs, active_scans,
          events, session_file, cpc, csid, cjob, cret, cpre, chit, ncancel, cancelledAt,
          engine, sweep, fn, arg, at, ret>>

workerVars == <<pc, idx, total, completed, result, failed>>
cancelVars == <<cpc, csid, cjob, cret, cpre, chit, ncancel, cancelledAt>>
callVars == <<fn, arg, at, ret>>
\* What the scan, process and cancel steps leave alone.
sideVars == <<engine, sweep, fn, arg, at, ret>>

----------------------------------------------------------------------------
\* Subprocess states: none (never spawned), running, termsent (SIGTERM sent,
\* not yet dead), exit0 / exit1 (exited by itself with a zero / non-zero
\* code), killed (ended by a signal: negative return code).
ProcStates == {"none", "running", "termsent", "exit0", "exit1", "killed"}

Alive(p) == p \in {"running", "termsent"}

Exited(p) == p \in {"exit0", "exit1", "killed"}

NoFile == [status |-> "none", completed_targets |-> 0, total_targets |-> 0]

Event(k, t, n) == [kind |-> k, target |-> t, n |-> n]

\* No session started, no job, no cancel request.
Idle ==
    /\ pc = [s \in AllSessions |-> "idle"]
    /\ idx = [s \in AllSessions |-> 0]
    /\ total = [s \in AllSessions |-> 0]
    /\ completed = [s \in AllSessions |-> 0]
    /\ result = [s \in AllSessions |-> "none"]
    /\ failed = [s \in AllSessions |-> "none"]
    /\ procs = [s \in AllSessions |-> [i \in TargetIdx |-> "none"]]
    /\ active_scans = [s \in AllSessions |-> 0]
    /\ events = [s \in AllSessions |-> <<>>]
    /\ session_file = [s \in AllSessions |-> NoFile]
    /\ cpc = "idle"
    /\ csid = 0
    /\ cjob = 0
    /\ cret = "none"
    /\ cpre = FALSE
    /\ chit = FALSE
    /\ ncancel = 0
    /\ cancelledAt = [s \in AllSessions |-> 0]

\* cleanup_abandoned_scans has not been called.
NoSweep == [pc |-> "idle", old |-> {}, size |-> 0, seen |-> {}, cur |-> 0, remove |-> <<>>]

\* No pure function is being applied.
NoCall ==
    /\ fn = "none"
    /\ arg = <<>>
    /\ at = 0
    /\ ret = <<>>

\* verify_nmap_installation: runs `nmap --version`; True when it exits with
\* code 0, False (after logging an error) when it does not or cannot be run.
verify_nmap_installation == engine = "available"

\* The scanner object after construction.  NmapScanner.__init__ of
\* nmap_scanner.py calls verify_nmap_installation and drops its result; the
\* NmapScanner of app.py makes no such call.  Either way the object exists
\* with an empty registry whether or not nmap can be run.
Init ==
    /\ impl \in {"app", "module"}
    /\ engine \in {"available", "missing"}
    /\ Idle
    /\ sweep = NoSweep
    /\ NoCall

----------------------------------------------------------------------------
\* A variant that writes the first snapshot with the whole batch counted.
InitialSnapshotAllCounted(n) ==
    [status |-> "running", completed_targets |-> n, total_targets |-> n]

\* session_metadata of start_scan: 'status': 'running', 'completed_targets': 0,
\* 'total_targets': len(targets)
InitialSnapshot(n) ==
    [status |-> "running", completed_targets |-> 0, total_targets |-> n]

\* start_scan route: writes the session file (status running, 0 completed)
\* and starts the worker thread.  The route checks neither the registry size
\* nor max_concurrent_scans.
StartScan(s, n) ==
    /\ impl = "app"
    /\ pc[s] = "idle"
    /\ total' = [total EXCEPT ![s] = n]
    /\ session_file' = [session_file EXCEPT ![s] = InitialSnapshot(n)]
    /\ pc' = [pc EXCEPT ![s] = "start"]
    /\ UNCHANGED <<impl, idx, completed, result, failed, procs, active_scans, events>>
    /\ UNCHANGED cancelVars
    /\ UNCHANGED sideVars

\* A caller of the standalone scanner invokes scan_single_ip for one target
\* under session id s.
StartJob(s) ==
    /\ impl = "module"
    /\ pc[s] = "idle"
    /\ total' = [total EXCEPT ![s] = 1]
    /\ idx' = [idx EXCEPT ![s] = 1]
    /\ pc' = [pc EXCEPT ![s] = "spawn"]
    /\ UNCHANGED <<impl, completed, result, failed, procs, active_scans, events, session_file>>
    /\ UNCHANGED cancelVars
    /\ UNCHANGED sideVars

\* scan_ip_list, before the loop: completed = 0 and the scan_started event.
W_ScanStarted(s) ==
    /\ pc[s] = "start"
    /\ completed' = [completed EXCEPT ![s] = 0]
    /\ idx' = [idx EXCEPT ![s] = 1]
    /\ events' = [events EXCEPT ![s] = Append(@, Event("scan_started", 0, total[s]))]
    /\ pc' = [pc EXCEPT ![s] = "progress"]
    /\ UNCHANGED <<impl, total, result, failed, procs, active_scans, session_file>>
    /\ UNCHANGED cancelVars
    /\ UNCHANGED sideVars

\* The for loop has a next target: there is no other exit from the loop.
LoopHasNext(s) == idx[s] <= total[s]

\* A variant that names the target by its zero-based position.
ProgressEventZeroBased(s) == Event("scan_progress", idx[s] - 1, completed[s])

\* emit('scan_progress', {current_target, completed, total, ...})
ProgressEvent(s) == Event("scan_progress", idx[s], completed[s])

\* Loop head up to the call of scan_single_ip: the scan_progress event.
W_Progress(s) ==
    /\ pc[s] = "progress"
    /\ LoopHasNext(s)
    /\ events' = [events EXCEPT ![s] = Append(@, ProgressEvent(s))]
    /\ pc' = [pc EXCEPT ![s] = "spawn"]
    /\ UNCHANGED <<impl, idx, total, completed, result, failed, procs, active_scans, session_file>>
    /\ UNCHANGED cancelVars
    /\ UNCHANGED sideVars

----------------------------------------------------------------------------
\* scan_single_ip.  Everything from the command construction to the return
\* sits in one try block whose handler returns a result with status 'error'
\* and the error text; the two statements before the try (target_data['ip'],
\* project_folder / 'scans') do not fail for a target of the expander.

\* A variant of the handler that lets a post-processing failure escape.
ExceptPropagatesPost(s, stage) ==
    IF stage \in {"post", "cleanup"}
    THEN /\ pc' = [pc EXCEPT ![s] = "raised"]
         /\ failed' = [failed EXCEPT ![s] = stage]
         /\ UNCHANGED result
    ELSE /\ result' = [result EXCEPT ![s] = "error"]
         /\ failed' = [failed EXCEPT ![s] = stage]
         /\ pc' = [pc EXCEPT ![s] = "ret"]

\* except Exception as e: return {'target_ip', 'status': 'error', 'error', ...}
Except(s, stage) ==
    /\ result' = [result EXCEPT ![s] = "error"]
    /\ failed' = [failed EXCEPT ![s] = stage]
    /\ pc' = [pc EXCEPT ![s] = "ret"]

\* build_nmap_command and subprocess.Popen: the process starts, or either
\* call raises and no process exists.  Popen raises FileNotFoundError when
\* there is no nmap executable.
S_Spawn(s) ==
    /\ pc[s] = "spawn"
    /\ \/ /\ engine = "available"
          /\ procs' = [procs EXCEPT ![s][idx[s]] = "running"]
          /\ pc' = [pc EXCEPT ![s] = "register"]
          /\ UNCHANGED <<result, failed>>
       \/ /\ \E stage \in {"build", "spawn"} : Except(s, stage)
          /\ UNCHANGED procs
    /\ UNCHANGED <<impl, idx, total, completed, active_scans, events, session_file>>
    /\ UNCHANGED cancelVars
    /\ UNCHANGED sideVars

\* self.active_scans[scan_session_id] = {'process': process, ...}
S_Register(s) ==
    /\ pc[s] = "register"
    /\ active_scans' = [active_scans EXCEPT ![s] = idx[s]]
    /\ pc' = [pc EXCEPT ![s] = "wait"]
    /\ UNCHANGED <<impl, idx, total, completed, result, failed, procs, events, session_file>>
    /\ UNCHANGED cancelVars
    /\ UNCHANGED sideVars

\* A communicate() that does not wait for the process to exit.
CommunicateReturnsEarly(s) == procs[s][idx[s]] # "none"

\* process.communicate() returns once the process has exited.
CommunicateReturns(s) == Exited(procs[s][idx[s]])

\* process.communicate(): blocks until exit; it can raise while decoding the
\* collected output (text=True), which it does after the process was reaped.
\* The standalone scanner then checks whether a cancel removed the entry.
S_Wait(s) ==
    /\ pc[s] = "wait"
    /\ CommunicateReturns(s)
    /\ \/ Except(s, "wait")
       \/ /\ IF impl = "module" /\ active_scans[s] = 0
             THEN /\ result' = [result EXCEPT ![s] = "cancelled"]
                  /\ pc' = [pc EXCEPT ![s] = "ret"]
             ELSE /\ pc' = [pc EXCEPT ![s] = "post"]
                  /\ UNCHANGED result
          /\ UNCHANGED failed
    /\ UNCHANGED <<impl, idx, total, completed, procs, active_scans, events, session_file>>
    /\ UNCHANGED cancelVars
    /\ UNCHANGED sideVars

\* A variant that reports every exited process as a success.
ExitStatusIgnoresCode(p) == "completed"

\* 'completed' if process.returncode == 0 else 'failed'
ExitStatus(p) == IF p = "exit0" THEN "completed" ELSE "failed"

\* The result dictionary, parse_nmap_xml (which catches its own errors),
\* save_scan_metadata, then the test `scan_session_id in self.active_scans`.
\* A failure in between (app.py's save_scan_metadata writes without a guard)
\* goes to the handler and skips the cleanup.
S_Post(s) ==
    /\ pc[s] = "post"
    /\ \/ Except(s, "post")
       \/ /\ result' = [result EXCEPT ![s] = ExitStatus(procs[s][idx[s]])]
          /\ pc' = [pc EXCEPT ![s] = IF active_scans[s] # 0 THEN "del" ELSE "ret"]
          /\ UNCHANGED failed
    /\ UNCHANGED <<impl, idx, total, completed, procs, active_scans, events, session_file>>
    /\ UNCHANGED cancelVars
    /\ UNCHANGED sideVars

\* del self.active_scans[scan_session_id]: KeyError when a cancel removed the
\* entry after the test; the KeyError goes to the handler.
S_Del(s) ==
    /\ pc[s] = "del"
    /\ IF active_scans[s] # 0
       THEN /\ active_scans' = [active_scans EXCEPT ![s] = 0]
            /\ pc' = [pc EXCEPT ![s] = "ret"]
            /\ UNCHANGED <<result, failed>>
       ELSE /\ Except(s, "cleanup")
            /\ UNCHANGED active_scans
    /\ UNCHANGED <<impl, idx, total, completed, procs, events, session_file>>
    /\ UNCHANGED cancelVars
    /\ UNCHANGED sideVars

----------------------------------------------------------------------------
\* scan_ip_list, after the call.

\* A variant that emits the error event in addition for an error result.
ResultEventsBoth(s) ==
    IF pc[s] = "raised" \/ result[s] = "error"
    THEN <<Event("host_result", idx[s], 0), Event("host_error", idx[s], 0)>>
    ELSE <<Event("host_result", idx[s], 0)>>

\* try: result = scan_single_ip(...); emit('host_result')
\* except Exception: emit('host_error')
ResultEvents(s) ==
    IF pc[s] = "raised"
    THEN <<Event("host_error", idx[s], 0)>>
    ELSE <<Event("host_result", idx[s], 0)>>

\* A variant that counts only the targets whose job did not end in an error.
CompletedAfterSkipErrors(s) ==
    IF result[s] = "error" THEN completed[s] ELSE completed[s] + 1

\* completed += 1
CompletedAfter(s) == completed[s] + 1

\* The result-or-error event, completed += 1, the session file rewrite
\* (completed_targets), and the step to the next target.
W_Result(s) ==
    /\ impl = "app"
    /\ pc[s] \in {"ret", "raised"}
    /\ events' = [events EXCEPT ![s] = @ \o ResultEvents(s)]
    /\ completed' = [completed EXCEPT ![s] = CompletedAfter(s)]
    /\ session_file' = [session_file EXCEPT ![s] =
           IF @.status # "none" THEN [@ EXCEPT !.completed_targets = CompletedAfter(s)] ELSE @]
    /\ idx' = [idx EXCEPT ![s] = @ + 1]
    /\ result' = [result EXCEPT ![s] = "none"]
    /\ failed' = [failed EXCEPT ![s] = "none"]
    /\ pc' = [pc EXCEPT ![s] = "progress"]
    /\ UNCHANGED <<impl, total, procs, active_scans>>
    /\ UNCHANGED cancelVars
    /\ UNCHANGED sideVars

\* A variant that leaves the persisted status as it was.
FinalStatusUnchanged(s) == session_file[s].status

\* session_data['status'] = 'completed'
FinalStatus(s) == "completed"

\* After the loop: the session file gets status 'completed', then the
\* scan_completed event.
W_Finalize(s) ==
    /\ impl = "app"
    /\ pc[s] = "progress"
    /\ ~LoopHasNext(s)
    /\ session_file' = [session_file EXCEPT ![s] =
           IF @.status # "none" THEN [@ EXCEPT !.status = FinalStatus(s)] ELSE @]
    /\ events' = [events EXCEPT ![s] = Append(@, Event("scan_completed", 0, completed[s]))]
    /\ pc' = [pc EXCEPT ![s] = "done"]
    /\ UNCHANGED <<impl, idx, total, completed, result, failed, procs, active_scans>>
    /\ UNCHANGED cancelVars
    /\ UNCHANGED sideVars

----------------------------------------------------------------------------
\* The scan subprocess ends: by itself with a zero or non-zero code, or, once
\* SIGTERM was sent, by the signal (it may still finish by itself first).
ProcExit(s, i) ==
    /\ Alive(procs[s][i])
    /\ \E how \in {"exit0", "exit1", "killed"} :
          /\ how = "killed" => procs[s][i] = "termsent"
          /\ procs' = [procs EXCEPT ![s][i] = how]
    /\ UNCHANGED <<impl, active_scans, events, session_file>>
    /\ UNCHANGED workerVars
    /\ UNCHANGED cancelVars
    /\ UNCHANGED sideVars

----------------------------------------------------------------------------
\* Cancel requests: the cancel_scan route of app.py, and the method
\* NmapScanner.cancel_scan of nmap_scanner.py.  Outcomes (cret):
\*   "true"     route: 200 success            method: True
\*   "notfound" route: 404 'Scan not found'   method: False (the final return)
\*   "error"    route: 500 from its except    method: False (from its except)
\*   "raised"   route: exception out of the view function

\* A variant that announces the cancellation before looking the id up.
C_CheckAnnounces(s) ==
    /\ cpc = "idle"
    /\ ncancel < MaxCancels
    /\ ncancel' = ncancel + 1
    /\ csid' = s
    /\ cjob' = 0
    /\ chit' = FALSE
    /\ events' = [events EXCEPT ![s] = Append(@, Event("scan_cancelled", 0, 0))]
    /\ IF active_scans[s] # 0
       THEN /\ cpc' = "read"
            /\ cret' = "none"
            /\ cpre' = Alive(procs[s][active_scans[s]])
       ELSE /\ cpc' = "idle"
            /\ cret' = "notfound"
            /\ cpre' = FALSE
    /\ UNCHANGED <<impl, procs, active_scans, session_file, cancelledAt>>
    /\ UNCHANGED workerVars
    /\ UNCHANGED sideVars

\* if scan_session_id in active_scans: ... else the not-found return.
C_Check(s) ==
    /\ cpc = "idle"
    /\ ncancel < MaxCancels
    /\ ncancel' = ncancel + 1
    /\ csid' = s
    /\ cjob' = 0
    /\ chit' = FALSE
    /\ IF active_scans[s] # 0
       THEN /\ cpc' = "read"
            /\ cret' = "none"
            /\ cpre' = Alive(procs[s][active_scans[s]])
       ELSE /\ cpc' = "idle"
            /\ cret' = "notfound"
            /\ cpre' = FALSE
    /\ UNCHANGED <<impl, procs, active_scans, events, session_file, cancelledAt>>
    /\ UNCHANGED workerVars
    /\ UNCHANGED sideVars

\* Popen.terminate(): SIGTERM to a process that has not been reaped; nothing
\* for one that has.
Terminate(p) == IF p = "running" THEN "termsent" ELSE p

\* scan_info = active_scans[scan_session_id]; process.terminate().
\* The lookup raises KeyError when the worker removed the entry after the
\* membership test: outside the try in the route, inside it in the method.
C_Read ==
    /\ cpc = "read"
    /\ IF active_scans[csid] = 0
       THEN /\ cret' = IF impl = "app" THEN "raised" ELSE "error"
            /\ cpc' = "idle"
            /\ csid' = 0
            /\ cpre' = FALSE
            /\ UNCHANGED <<procs, cjob, chit>>
       ELSE /\ cjob' = active_scans[csid]
            /\ chit' = Alive(procs[csid][active_scans[csid]])
            /\ procs' = [procs EXCEPT ![csid][active_scans[csid]] = Terminate(@)]
            /\ cpc' = IF impl = "app" THEN "del" ELSE "sleep"
            /\ UNCHANGED <<cret, csid, cpre>>
    /\ UNCHANGED <<impl, active_scans, events, session_file, ncancel, cancelledAt>>
    /\ UNCHANGED workerVars
    /\ UNCHANGED sideVars

\* Popen.kill() after the poll: SIGKILL ends a process that is still alive.
Kill(p) == IF Alive(p) THEN "killed" ELSE p

\* time.sleep(1); if process.poll() is None: process.kill()   (method only)
C_Kill ==
    /\ cpc = "sleep"
    /\ procs' = [procs EXCEPT ![csid][cjob] = Kill(@)]
    /\ cpc' = "del"
    /\ UNCHANGED <<impl, active_scans, events, session_file>>
    /\ UNCHANGED <<csid, cjob, cret, cpre, chit, ncancel, cancelledAt>>
    /\ UNCHANGED workerVars
    /\ UNCHANGED sideVars

\* del active_scans[scan_session_id], then (route) the scan_cancelled event
\* and the success response.  The del raises KeyError when the worker removed
\* the entry meanwhile; both the route and the method catch it and report
\* failure.
C_Del ==
    /\ cpc = "del"
    /\ IF active_scans[csid] = 0
       THEN /\ cret' = "error"
            /\ UNCHANGED <<active_scans, events, cancelledAt>>
       ELSE /\ active_scans' = [active_scans EXCEPT ![csid] = 0]
            /\ events' = [events EXCEPT ![csid] =
                   IF impl = "app" THEN Append(@, Event("scan_cancelled", 0, 0)) ELSE @]
            /\ cancelledAt' = [cancelledAt EXCEPT ![csid] =
                   IF chit /\ @ = 0 THEN cjob ELSE @]
            /\ cret' = "true"
    /\ cpc' = "idle"
    /\ csid' = 0
    /\ cjob' = 0
    /\ cpre' = FALSE
    /\ chit' = FALSE
    /\ UNCHANGED <<impl, procs, session_file, ncancel>>
    /\ UNCHANGED workerVars
    /\ UNCHANGED sideVars

----------------------------------------------------------------------------
Worker(s) ==
    \/ W_ScanStarted(s)
    \/ W_Progress(s)
    \/ S_Spawn(s)
    \/ S_Register(s)
    \/ S_Wait(s)
    \/ S_Post(s)
    \/ S_Del(s)
    \/ W_Result(s)
    \/ W_Finalize(s)

CancelSteps == C_Read \/ C_Kill \/ C_Del

\* Sizes of the batches submitted under session id s: up to MaxTargets
\* targets under the first id, single-target batches under the others.
Batch(s) == IF s = 1 THEN 1..MaxTargets ELSE {1}

\* All steps of the system when the session ids in use are S.
Step(S) ==
    \/ \E s \in S : \E n \in Batch(s) : StartScan(s, n)
    \/ \E s \in S : StartJob(s)
    \/ \E s \in S : Worker(s)
    \/ \E s \in S : \E i \in TargetIdx : ProcExit(s, i)
    \/ \E s \in S : C_Check(s)
    \/ CancelSteps

\* One session id in use.
Next == Step({1})

Spec == Init /\ [][Next]_vars

\* The worker thread runs, the request thread runs, and every spawned
\* subprocess eventually exits.
Fairness ==
    /\ WF_vars(Worker(1))
    /\ \A i \in TargetIdx : WF_vars(ProcExit(1, i))
    /\ WF_vars(CancelSteps)

FairSpec == Spec /\ Fairness

\* Two session ids in use at the same time.
NextMulti == Step({1, 2})

SpecMulti == Init /\ [][NextMulti]_vars

\* Scan requests for more session ids than the configured limit arrive while
\* the scans spawned so far are still running (one target each).
NextCap ==
    \E s \in AllSessions :
        \/ StartScan(s, 1)
        \/ W_ScanStarted(s)
        \/ W_Progress(s)
        \/ S_Spawn(s)
        \/ S_Register(s)

SpecCap == Init /\ [][NextCap]_vars

----------------------------------------------------------------------------
\* cleanup_abandoned_scans of nmap_scanner.py, run by a thread of its own.

\* The keys of the registry.
Registered == {s \in AllSessions : active_scans[s] # 0}

\* current_time = now; sessions_to_remove = []; the for statement creates the
\* iterator of self.active_scans.items(), which records the size of the dict.
\* O: the registered jobs whose age at current_time exceeds max_age_hours.
Sw_Begin(O) ==
    /\ impl = "module"
    /\ sweep.pc = "idle"
    /\ O \subseteq Registered
    /\ sweep' = [pc |-> "iter", old |-> O, size |-> Cardinality(Registered),
                 seen |-> {}, cur |-> 0, remove |-> <<>>]
    /\ UNCHANGED <<impl, engine, procs, active_scans, events, session_file>>
    /\ UNCHANGED workerVars
    /\ UNCHANGED cancelVars
    /\ UNCHANGED callVars

\* The iterator's next(): RuntimeError ('dictionary changed size during
\* iteration') when the dict no longer has the recorded size, and nothing in
\* cleanup_abandoned_scans catches it; else the next entry not yet yielded
\* (any of them: the order is that of insertion), or the end of the loop.
\* For a yielded entry the age test selects the call of cancel_scan.
Sw_Next ==
    /\ sweep.pc = "iter"
    /\ IF Cardinality(Registered) # sweep.size
       THEN sweep' = [sweep EXCEPT !.pc = "raised"]
       ELSE IF Registered \ sweep.seen = {}
            THEN sweep' = [sweep EXCEPT !.pc = "remove"]
            ELSE \E s \in Registered \ sweep.seen :
                    sweep' = [sweep EXCEPT !.seen = @ \cup {s},
                                           !.cur = s,
                                           !.pc = IF s \in sweep.old THEN "call" ELSE "iter"]
    /\ UNCHANGED <<impl, engine, procs, active_scans, events, session_file>>
    /\ UNCHANGED workerVars
    /\ UNCHANGED cancelVars
    /\ UNCHANGED callVars

\* self.cancel_scan(session_id): the membership test of cancel_scan, made by
\* the sweeping thread; when it fails cancel_scan returns False at once and
\* the id is appended to sessions_to_remove.
Sw_Call ==
    /\ sweep.pc = "call"
    /\ cpc = "idle"
    /\ csid' = sweep.cur
    /\ cjob' = 0
    /\ chit' = FALSE
    /\ IF active_scans[sweep.cur] # 0
       THEN /\ cpc' = "read"
            /\ cret' = "none"
            /\ cpre' = Alive(procs[sweep.cur][active_scans[sweep.cur]])
            /\ sweep' = [sweep EXCEPT !.pc = "incall"]
       ELSE /\ cpc' = "idle"
            /\ cret' = "notfound"
            /\ cpre' = FALSE
            /\ sweep' = [sweep EXCEPT !.pc = "iter", !.remove = Append(@, sweep.cur)]
    /\ UNCHANGED <<impl, engine, procs, active_scans, events, session_file>>
    /\ UNCHANGED <<ncancel, cancelledAt>>
    /\ UNCHANGED workerVars
    /\ UNCHANGED callVars

\* cancel_scan has returned (True or False): sessions_to_remove.append.
Sw_Return ==
    /\ sweep.pc = "incall"
    /\ cpc = "idle"
    /\ sweep' = [sweep EXCEPT !.pc = "iter", !.remove = Append(@, sweep.cur)]
    /\ UNCHANGED <<impl, engine, procs, active_scans, events, session_file>>
    /\ UNCHANGED workerVars
    /\ UNCHANGED cancelVars
    /\ UNCHANGED callVars

\* for session_id in sessions_to_remove: if it is in active_scans: del.
Sw_Remove ==
    /\ sweep.pc = "remove"
    /\ IF sweep.remove = <<>>
       THEN /\ sweep' = [sweep EXCEPT !.pc = "done"]
            /\ UNCHANGED active_scans
       ELSE /\ sweep' = [sweep EXCEPT !.remove = Tail(@)]
            /\ active_scans' = [active_scans EXCEPT ![Head(sweep.remove)] = 0]
    /\ UNCHANGED <<impl, engine, procs, events, session_file>>
    /\ UNCHANGED workerVars
    /\ UNCHANGED cancelVars
    /\ UNCHANGED callVars

\* Jobs of the standalone scanner under two session ids, and one sweep.
NextSweep ==
    \/ \E s \in {1, 2} :
          \/ StartJob(s)
          \/ S_Spawn(s)
          \/ S_Register(s)
          \/ S_Wait(s)
          \/ S_Post(s)
          \/ S_Del(s)
          \/ ProcExit(s, 1)
    \/ \E O \in SUBSET {1, 2} : Sw_Begin(O)
    \/ Sw_Next
    \/ Sw_Call
    \/ Sw_Return
    \/ Sw_Remove
    \/ CancelSteps

SpecSweep == Init /\ [][NextSweep]_vars

----------------------------------------------------------------------------
\* IPProcessor of app.py: the target expander.
\*
\* A line of input is a sequence of tokens: a natural number stands for a run
\* of decimal digits, a negative number for one of the characters the code
\* looks for, or for a word that is not a number.  Lines carry no blanks
\* (process_input strips them), addresses are IPv4, and the prefix of a CIDR
\* block is given as a length.
DOT == -1
SLASH == -2
DASH == -3
COLON == -4
COMMA == -5
WORD == -6

\* max CIDR size and the range limit, as written in the code
MaxCidrSize == 10000
MaxRangeSize == 1000

\* sym in line
Has(line, sym) == \E k \in DOMAIN line : line[k] = sym

\* Position of the first / last occurrence of sym (0 when there is none).
FirstOf(line, sym) ==
    IF Has(line, sym)
    THEN CHOOSE k \in DOMAIN line :
            line[k] = sym /\ \A j \in 1..(k - 1) : line[j] # sym
    ELSE 0

LastOf(line, sym) ==
    IF Has(line, sym)
    THEN CHOOSE k \in DOMAIN line :
            line[k] = sym /\ \A j \in (k + 1)..Len(line) : line[j] # sym
    ELSE 0

\* line.split(sym, 1): the text before and after the first sym.
Before(line, sym) == SubSeq(line, 1, FirstOf(line, sym) - 1)

After(line, sym) == SubSeq(line, FirstOf(line, sym) + 1, Len(line))

\* ipaddress.ip_address(text) succeeds: four decimal octets.
IsAddress(t) ==
    /\ Len(t) = 7
    /\ t[2] = DOT /\ t[4] = DOT /\ t[6] = DOT
    /\ \A k \in {1, 3, 5, 7} : t[k] \in 0..255

\* int(ipaddress.ip_address(text))
AddressValue(t) == ((t[1] * 256 + t[3]) * 256 + t[5]) * 256 + t[7]

\* str(address)
AddressText(n) ==
    <<n \div 16777216, DOT, (n \div 65536) % 256, DOT, (n \div 256) % 256, DOT, n % 256>>

\* ipaddress.ip_network(text, strict=False) succeeds: address '/' length.
IsNetwork(t) ==
    /\ Has(t, SLASH)
    /\ IsAddress(Before(t, SLASH))
    /\ Len(After(t, SLASH)) = 1
    /\ After(t, SLASH)[1] \in 0..32

PrefixLen(t) == After(t, SLASH)[1]

\* network.num_addresses
NumAddresses(t) == 2 ^ (32 - PrefixLen(t))

\* network.network_address: strict=False clears the host bits.
NetworkAddress(t) ==
    AddressValue(Before(t, SLASH)) - (AddressValue(Before(t, SLASH)) % NumAddresses(t))

\* A variant of hosts() that yields every address of the network.
HostsWithEnds(t) ==
    [k \in 1..NumAddresses(t) |-> NetworkAddress(t) + k - 1]

\* network.hosts(): the addresses between the network and the broadcast
\* address; both addresses of a /31; the address of a /32.
Hosts(t) ==
    IF PrefixLen(t) = 32 THEN <<NetworkAddress(t)>>
    ELSE IF PrefixLen(t) = 31 THEN <<NetworkAddress(t), NetworkAddress(t) + 1>>
    ELSE [k \in 1..(NumAddresses(t) - 2) |-> NetworkAddress(t) + k]

\* expand_cidr: [] from the handler when ip_network rejects the text or the
\* network has more than 10000 addresses.
expand_cidr(cidr) ==
    IF ~IsNetwork(cidr) THEN <<>>
    ELSE IF NumAddresses(cidr) > MaxCidrSize THEN <<>>
    ELSE LET hosts == Hosts(cidr)
         IN  [k \in DOMAIN hosts |-> AddressText(hosts[k])]

\* The while loop of expand_range, n the number of entries appended so far:
\* the loop is left when `current <= end` fails at the top, or through the
\* break, which is tested after the append, once len(ips) > 1000.
LoopStops(n, start, end) ==
    \/ start + n > end
    \/ n > MaxRangeSize

\* Number of entries with which the loop is left: the first n that stops
\* it (once the loop would stop it would stop at every larger n as well).
RangeLen(start, end) ==
    CHOOSE n \in 0..(MaxRangeSize + 1) :
        /\ LoopStops(n, start, end)
        /\ n > 0 => ~LoopStops(n - 1, start, end)

\* ips after the loop: ips.append(str(current)); current += 1
RangeLoop(start, end) ==
    [k \in 1..RangeLen(start, end) |-> AddressText(start + k - 1)]

\* The end of a partial range: ip_parts = start_ip.split('.');
\* ip_parts[-1] = end_part; '.'.join(ip_parts)
EndOfPartial(start_ip, end_part) ==
    SubSeq(start_ip, 1, LastOf(start_ip, DOT)) \o end_part

\* expand_range: the handler returns [ip_range] when either address does not
\* parse.
expand_range(ip_range) ==
    IF ~Has(ip_range, DASH) THEN <<ip_range>>
    ELSE LET start_ip == Before(ip_range, DASH)
             end_part == After(ip_range, DASH)
             end_ip   == IF Has(end_part, DOT) THEN end_part
                         ELSE EndOfPartial(start_ip, end_part)
         IN  IF IsAddress(start_ip) /\ IsAddress(end_ip)
             THEN RangeLoop(AddressValue(start_ip), AddressValue(end_ip))
             ELSE <<ip_range>>

\* text.split(','), the empty pieces dropped.
RECURSIVE Ports(_)
Ports(text) ==
    IF text = <<>> THEN <<>>
    ELSE IF ~Has(text, COMMA) THEN <<text>>
    ELSE IF Before(text, COMMA) = <<>> THEN Ports(After(text, COMMA))
    ELSE <<Before(text, COMMA)>> \o Ports(After(text, COMMA))

\* parse_ip_with_ports
parse_ip_with_ports(ip_port) ==
    IF ~Has(ip_port, COLON) THEN [ip |-> ip_port, ports |-> <<>>]
    ELSE [ip |-> Before(ip_port, COLON), ports |-> Ports(After(ip_port, COLON))]

\* [{'ip': ip, 'ports': []} for ip in ips]
Targets(ips) == [k \in DOMAIN ips |-> [ip |-> ips[k], ports |-> <<>>]]

\* process_input: one step per line of the input.

\* The line the loop is at.
Line == arg[at]

InLoop == fn = "process_input" /\ at \in DOMAIN arg

\* What a step of process_input leaves alone.
NotExpander ==
    /\ UNCHANGED <<impl, engine, sweep, procs, active_scans, events, session_file, fn, arg>>
    /\ UNCHANGED workerVars
    /\ UNCHANGED cancelVars

\* if line.strip(): a blank line is dropped.
PI_Blank ==
    /\ InLoop
    /\ Line = <<>>
    /\ at' = at + 1
    /\ UNCHANGED ret
    /\ NotExpander

\* if '/' in line
PI_Cidr ==
    /\ InLoop
    /\ Line # <<>>
    /\ Has(Line, SLASH)
    /\ ret' = ret \o Targets(expand_cidr(Line))
    /\ at' = at + 1
    /\ NotExpander

\* elif '-' in line and not line.startswith('-')
PI_Range ==
    /\ InLoop
    /\ Line # <<>>
    /\ ~Has(Line, SLASH)
    /\ Has(Line, DASH) /\ Line[1] # DASH
    /\ ret' = ret \o Targets(expand_range(Line))
    /\ at' = at + 1
    /\ NotExpander

\* elif ':' in line
PI_Ports ==
    /\ InLoop
    /\ Line # <<>>
    /\ ~Has(Line, SLASH)
    /\ ~(Has(Line, DASH) /\ Line[1] # DASH)
    /\ Has(Line, COLON)
    /\ ret' = Append(ret, parse_ip_with_ports(Line))
    /\ at' = at + 1
    /\ NotExpander

\* else: a single address or host name
PI_Single ==
    /\ InLoop
    /\ Line # <<>>
    /\ ~Has(Line, SLASH)
    /\ ~(Has(Line, DASH) /\ Line[1] # DASH)
    /\ ~Has(Line, COLON)
    /\ ret' = Append(ret, [ip |-> Line, ports |-> <<>>])
    /\ at' = at + 1
    /\ NotExpander

\* The lines the inputs are made of.
Quad(a, b, c, d) == <<a, DOT, b, DOT, c, DOT, d>>

CidrLines ==
    { Quad(10, 0, 0, 4) \o <<SLASH, 30>>,
      Quad(10, 0, 0, 13) \o <<SLASH, 29>>,
      Quad(10, 0, 0, 6) \o <<SLASH, 31>>,
      Quad(10, 0, 0, 7) \o <<SLASH, 32>>,
      Quad(10, 0, 32, 0) \o <<SLASH, 19>>,
      Quad(10, 0, 64, 0) \o <<SLASH, 18>>,
      Quad(10, 0, 0, 0) \o <<SLASH, 8>>,
      <<10, DOT, 0, DOT, 0, SLASH, 24>>,
      Quad(10, 0, 0, 0) \o <<SLASH, 33>>,
      Quad(10, 0, 0, 0) \o <<SLASH>>,
      Quad(10, 0, 0, 4) \o <<SLASH, 30, COLON, 80>> }

RangeLines ==
    { Quad(10, 0, 0, 1) \o <<DASH, 3>>,
      Quad(10, 0, 0, 5) \o <<DASH, 5>>,
      Quad(10, 0, 0, 254) \o <<DASH>> \o Quad(10, 0, 1, 1),
      Quad(10, 0, 0, 9) \o <<DASH, 2>>,
      Quad(10, 0, 1, 0) \o <<DASH>> \o Quad(10, 0, 0, 0),
      Quad(10, 0, 0, 1) \o <<DASH, 300>>,
      Quad(10, 0, 0, 1) \o <<DASH, 3, COLON, 80>>,
      <<WORD, DASH, 1>>,
      Quad(10, 0, 0, 0) \o <<DASH>> \o Quad(10, 0, 3, 231),
      Quad(10, 0, 0, 0) \o <<DASH>> \o Quad(10, 0, 3, 232),
      Quad(10, 0, 0, 0) \o <<DASH>> \o Quad(10, 0, 8, 0) }

OtherLines ==
    { <<>>,
      Quad(10, 0, 0, 1),
      <<WORD>>,
      <<DASH, WORD>>,
      Quad(10, 0, 0, 1) \o <<COLON, 80, COMMA, 443>>,
      Quad(10, 0, 0, 1) \o <<COLON, 80, COMMA, COMMA, 443>>,
      <<WORD, COLON>> }

SampleLines == CidrLines \cup RangeLines \cup OtherLines

\* Number of lines of an input
MaxLines == 2

\* The lines that follow the first line of an input: one of each kind.
FollowLines ==
    { <<>>,
      Quad(10, 0, 0, 1),
      Quad(10, 0, 0, 1) \o <<COLON, 80, COMMA, 443>>,
      Quad(10, 0, 0, 4) \o <<SLASH, 30>>,
      Quad(10, 0, 64, 0) \o <<SLASH, 18>>,
      Quad(10, 0, 0, 1) \o <<DASH, 3>>,
      Quad(10, 0, 0, 9) \o <<DASH, 2>> }

\* The inputs: any sample line, followed by up to MaxLines - 1 more lines.
Batches ==
    {<<first>> \o rest : first \in SampleLines,
                         rest \in UNION {[1..n -> FollowLines] : n \in 0..(MaxLines - 1)}}

\* process_input is called on a batch of lines: ip_list = [].
InitExpander ==
    /\ impl = "app"
    /\ engine = "available"
    /\ Idle
    /\ sweep = NoSweep
    /\ fn = "process_input"
    /\ arg \in Batches
    /\ at = 1
    /\ ret = <<>>

NextExpander == PI_Blank \/ PI_Cidr \/ PI_Range \/ PI_Ports \/ PI_Single

SpecExpander == InitExpander /\ [][NextExpander]_vars

----------------------------------------------------------------------------
\* build_nmap_command (the same code in app.py and nmap_scanner.py, apart
\* from the preset default and the udp preset).  Dictionaries are functions
\* whose domain is the set of keys present; text is a string, the target
\* address a sequence of pieces ("10", ".", "0", ...) so that its characters
\* can be replaced.

\* self.scan_presets
scan_presets ==
    [fast          |-> <<"-F">>,
     top1000       |-> <<"--top-ports", "1000">>,
     allports      |-> <<"-p-">>,
     udp           |-> IF impl = "app" THEN <<"-sU">> ELSE <<"-sU", "--top-ports", "100">>,
     stealth       |-> <<"-sS">>,
     comprehensive |-> <<"-A">>,
     vuln          |-> <<"--script=vuln">>,
     discovery     |-> <<"-sn">>,
     ping_only     |-> <<"-sn">>]

\* d.get(key, default)
Get(d, key, default) == IF key \in DOMAIN d THEN d[key] ELSE default

\* options.get('preset') in app.py (None is no preset name);
\* options.get('preset', 'fast') in nmap_scanner.py.
PresetArgs(options) ==
    LET preset == Get(options, "preset", IF impl = "app" THEN "None" ELSE "fast")
    IN  IF preset \in DOMAIN scan_presets THEN scan_presets[preset] ELSE <<>>

\* if options.get(key): cmd.append(flag)
Flag(options, key, flag) == IF Get(options, key, FALSE) THEN <<flag>> ELSE <<>>

\* A variant that puts the version detection flag before the scripts flag.
FlagArgsVersionFirst(options) ==
    Flag(options, "version_detection", "-sV") \o Flag(options, "scripts", "-sC")
        \o Flag(options, "os_detection", "-O") \o Flag(options, "skip_ping", "-Pn")
        \o Flag(options, "ping_only", "-sn") \o Flag(options, "aggressive", "-A")
        \o Flag(options, "verbose", "-v")

\* The seven if statements, in the order of the code.
FlagArgs(options) ==
    Flag(options, "scripts", "-sC") \o Flag(options, "version_detection", "-sV")
        \o Flag(options, "os_detection", "-O") \o Flag(options, "skip_ping", "-Pn")
        \o Flag(options, "ping_only", "-sn") \o Flag(options, "aggressive", "-A")
        \o Flag(options, "verbose", "-v")

\* timing = options.get('timing', '-T3'); if timing: cmd.append(timing)
TimingArgs(options) ==
    LET timing == Get(options, "timing", "-T3")
    IN  IF timing # "" THEN <<timing>> ELSE <<>>

\* sep.join(parts)
RECURSIVE Join(_, _)
Join(sep, parts) ==
    IF parts = <<>> THEN ""
    ELSE IF Len(parts) = 1 THEN parts[1]
    ELSE parts[1] \o sep \o Join(sep, Tail(parts))

\* custom_ports first, else the ports of the target, else no -p.
PortArgs(target, options) ==
    IF Get(options, "custom_ports", "") # "" THEN <<"-p", options.custom_ports>>
    ELSE IF Get(target, "ports", <<>>) # <<>> THEN <<"-p", Join(",", target.ports)>>
    ELSE <<>>

\* target_ip.replace('.', '_').replace(':', '_')
SafeIp(pieces) ==
    Join("", [k \in DOMAIN pieces |-> IF pieces[k] \in {".", ":"} THEN "_" ELSE pieces[k]])

\* timestamp = int(time.time()): the clock, counted in tenths of a second,
\* cut to whole seconds.
Timestamp(clock) == clock \div 10

\* output_file = f"scan_{safe_ip}_{timestamp}"
OutputFile(target, clock) ==
    "scan_" \o SafeIp(target.ip) \o "_" \o ToString(Timestamp(clock))

build_nmap_command(target, options, clock) ==
    LET output_file == OutputFile(target, clock)
    IN  [cmd |-> <<"nmap">> \o PresetArgs(options) \o FlagArgs(options)
                     \o TimingArgs(options) \o PortArgs(target, options)
                     \o <<"-oX", output_file \o ".xml">>
                     \o <<"-oN", output_file \o ".nmap">>
                     \o <<"-oG", output_file \o ".gnmap">>
                     \o <<Join("", target.ip)>>,
         output_file |-> output_file]

\* The call of build_nmap_command.
BuildCommand ==
    /\ fn = "build_nmap_command"
    /\ at = 0
    /\ ret' = build_nmap_command(arg.target, arg.options, arg.clock)
    /\ at' = 1
    /\ UNCHANGED <<impl, engine, sweep, procs, active_scans, events, session_file, fn, arg>>
    /\ UNCHANGED workerVars
    /\ UNCHANGED cancelVars

\* The inputs.
NoKey == [k \in {} |-> 0]

FlagKeys ==
    {"scripts", "version_detection", "os_detection", "skip_ping", "ping_only",
     "aggressive", "verbose"}

OptionSets ==
    {((preset @@ flags) @@ timing) @@ ports :
        preset \in {NoKey} \cup {[preset |-> p] : p \in {"fast", "udp", "top1000", "nosuch"}},
        flags \in {[k \in K |-> TRUE] : K \in SUBSET FlagKeys},
        timing \in {NoKey, [timing |-> ""], [timing |-> "-T4"]},
        ports \in {NoKey, [custom_ports |-> "1-1024"]}}

TargetSets ==
    {[ip |-> ip] @@ ports :
        ip \in {<<"10", ".", "0", ".", "0", ".", "1">>, <<"fe80", ":", ":", "1">>},
        ports \in {NoKey, [ports |-> <<"80">>], [ports |-> <<"80", "443">>]}}

Clocks == {17000, 17004}

InitBuilder ==
    /\ impl \in {"app", "module"}
    /\ engine = "available"
    /\ Idle
    /\ sweep = NoSweep
    /\ fn = "build_nmap_command"
    /\ arg \in [target : TargetSets, options : OptionSets, clock : Clocks]
    /\ at = 0
    /\ ret = <<>>

NextBuilder == BuildCommand

SpecBuilder == InitBuilder /\ [][NextBuilder]_vars

----------------------------------------------------------------------------
\* The jobs dispatched into one scan folder (project_folder / 'scans', the
\* same folder for every session of a project): arg holds the targets not
\* yet dispatched, in the order in which scan_single_ip will be called for
\* them, at is the clock and ret the output basenames handed to nmap so far.

\* The moments at which time.time() is read.
FolderClocks == {17000, 17004, 17008, 17012}

\* scan_single_ip up to Popen: the basename comes from build_nmap_command,
\* which reads the clock itself, and the process writes its artifacts under
\* that basename with cwd = scan_folder.
Dispatch ==
    /\ fn = "scan_folder"
    /\ arg.targets # <<>>
    /\ ret' = Append(ret, build_nmap_command(Head(arg.targets), arg.options, at).output_file)
    /\ arg' = [arg EXCEPT !.targets = Tail(@)]
    /\ UNCHANGED <<impl, engine, sweep, procs, active_scans, events, session_file, fn, at>>
    /\ UNCHANGED workerVars
    /\ UNCHANGED cancelVars

\* Time passes between two dispatches.
ClockAdvances ==
    /\ fn = "scan_folder"
    /\ \E c \in FolderClocks : c > at /\ at' = c
    /\ UNCHANGED <<impl, engine, sweep, procs, active_scans, events, session_file, fn, arg, ret>>
    /\ UNCHANGED workerVars
    /\ UNCHANGED cancelVars

InitFolder ==
    /\ impl \in {"app", "module"}
    /\ engine = "available"
    /\ Idle
    /\ sweep = NoSweep
    /\ fn = "scan_folder"
    /\ arg \in [targets : {<<a, b>> : a \in TargetSets, b \in TargetSets},
                options : {NoKey, [preset |-> "udp"]}]
    /\ at \in FolderClocks
    /\ ret = <<>>

NextFolder == Dispatch \/ ClockAdvances

SpecFolder == InitFolder /\ [][NextFolder]_vars

----------------------------------------------------------------------------
\* parse_nmap_xml: the keys host_status, services, open_ports and os_info,
\* which both implementations fill in the same way.  A document is the
\* element tree ET.parse returns (ok), or text ET.parse rejects; an element
\* is its tag, its attributes (a function on the attribute names present) and
\* its children in document order.

Elem(tag, attrs, kids) == [tag |-> tag, attrs |-> attrs, kids |-> kids]

\* e.find(tag) is not None
HasChild(e, tag) == \E k \in DOMAIN e.kids : e.kids[k].tag = tag

\* e.find(tag): the first child with the tag
Find(e, tag) ==
    e.kids[CHOOSE k \in DOMAIN e.kids :
              e.kids[k].tag = tag /\ \A j \in 1..(k - 1) : e.kids[j].tag # tag]

\* e.findall(tag): the children with the tag, in document order
FindAll(e, tag) == SelectSeq(e.kids, LAMBDA c : c.tag = tag)

\* The result dictionary before the document is looked at.
ResultDefaults ==
    [host_status |-> "down", open_ports |-> 0, services |-> <<>>, os_info |-> "",
     hostnames |-> <<>>]

\* What a step of parse_nmap_xml leaves alone.
NotParser ==
    /\ UNCHANGED <<impl, engine, sweep, procs, active_scans, events, session_file, fn, arg>>
    /\ UNCHANGED workerVars
    /\ UNCHANGED cancelVars

\* ET.parse(xml_file), getroot(), result = {...}; a document that does not
\* parse goes to the handler: return {'parse_error': str(e)}.
P_Load ==
    /\ fn = "parse_nmap_xml"
    /\ at = "load"
    /\ arg.exists
    /\ IF arg.ok
       THEN ret' = ResultDefaults /\ at' = "host"
       ELSE ret' = [parse_error |-> "ParseError"] /\ at' = "returned"
    /\ NotParser

\* host = root.find('host'); if host is None: return result
P_Host ==
    /\ fn = "parse_nmap_xml"
    /\ at = "host"
    /\ at' = IF HasChild(arg.root, "host") THEN "status" ELSE "returned"
    /\ UNCHANGED ret
    /\ NotParser

\* status = host.find('status')
\* if status is not None: result['host_status'] = status.get('state', 'unknown')
HostStatus(host, before) ==
    IF HasChild(host, "status")
    THEN Get(Find(host, "status").attrs, "state", "unknown")
    ELSE before

P_Status ==
    /\ fn = "parse_nmap_xml"
    /\ at = "status"
    /\ ret' = [ret EXCEPT !.host_status = HostStatus(Find(arg.root, "host"), @)]
    /\ at' = "ports"
    /\ NotParser

\* port_data of one port element: portid, protocol, the state ('unknown'
\* without a state node, None without the attribute), and the service keys
\* when there is a service node.
PortData(port) ==
    [port     |-> Get(port.attrs, "portid", "None"),
     protocol |-> Get(port.attrs, "protocol", "None"),
     state    |-> IF HasChild(port, "state")
                  THEN Get(Find(port, "state").attrs, "state", "None")
                  ELSE "unknown"]
    @@ (IF HasChild(port, "service")
        THEN [service   |-> Get(Find(port, "service").attrs, "name", ""),
              version   |-> Get(Find(port, "service").attrs, "version", ""),
              product   |-> Get(Find(port, "service").attrs, "product", ""),
              extrainfo |-> Get(Find(port, "service").attrs, "extrainfo", "")]
        ELSE NoKey)

\* for port in ports.findall('port'): result['services'].append(port_data)
Services(host) ==
    IF HasChild(host, "ports")
    THEN LET ports == FindAll(Find(host, "ports"), "port")
         IN  [k \in DOMAIN ports |-> PortData(ports[k])]
    ELSE <<>>

\* A variant that counts every port not reported closed.
OpenPortsNotClosed(services) ==
    Cardinality({k \in DOMAIN services : services[k].state # "closed"})

\* if port_data['state'] == 'open': result['open_ports'] += 1
OpenPorts(services) == Cardinality({k \in DOMAIN services : services[k].state = "open"})

P_Ports ==
    /\ fn = "parse_nmap_xml"
    /\ at = "ports"
    /\ LET services == Services(Find(arg.root, "host"))
       IN  ret' = [ret EXCEPT !.services = services, !.open_ports = OpenPorts(services)]
    /\ at' = "os"
    /\ NotParser

\* The name of the first osmatch of the os element, '' without the attribute.
OsInfo(host, before) ==
    IF HasChild(host, "os") /\ HasChild(Find(host, "os"), "osmatch")
    THEN Get(Find(Find(host, "os"), "osmatch").attrs, "name", "")
    ELSE before

P_Os ==
    /\ fn = "parse_nmap_xml"
    /\ at = "os"
    /\ ret' = [ret EXCEPT !.os_info = OsInfo(Find(arg.root, "host"), @)]
    /\ at' = "returned"
    /\ NotParser

\* The result dictionary scan_single_ip builds before it looks into the XML
\* file: the status by return code and the name of the XML file, None when
\* the file does not exist.
JobResult(doc) ==
    [status   |-> ExitStatus(doc.exit),
     xml_file |-> IF doc.exists THEN "scan.xml" ELSE "None"]

\* scan_single_ip, `if xml_file.exists(): ... else: logger.warning(...)`:
\* without the file the parser is not called and the result stays as built.
P_Missing ==
    /\ fn = "parse_nmap_xml"
    /\ at = "load"
    /\ ~arg.exists
    /\ ret' = JobResult(arg)
    /\ at' = "result"
    /\ NotParser

\* scan_single_ip, result.update(parsed_data): the keys the parser returned
\* are written over the result.
P_Update ==
    /\ fn = "parse_nmap_xml"
    /\ at = "returned"
    /\ ret' = ret @@ JobResult(arg)
    /\ at' = "result"
    /\ NotParser

\* The documents.
StatusNodes ==
    { Elem("status", [state |-> "up"], <<>>),
      Elem("status", [state |-> "down"], <<>>),
      Elem("status", NoKey, <<>>) }

PortNodes ==
    { Elem("port", [portid |-> "22", protocol |-> "tcp"],
           <<Elem("state", [state |-> "open"], <<>>),
             Elem("service", [name |-> "ssh", product |-> "OpenSSH"], <<>>)>>),
      Elem("port", [portid |-> "80", protocol |-> "tcp"],
           <<Elem("state", [state |-> "closed"], <<>>)>>),
      Elem("port", [portid |-> "53", protocol |-> "udp"], <<>>),
      Elem("port", [portid |-> "161", protocol |-> "udp"],
           <<Elem("state", [state |-> "open|filtered"], <<>>)>>),
      Elem("port", [portid |-> "443", protocol |-> "tcp"],
           <<Elem("state", [state |-> "open"], <<>>), Elem("service", NoKey, <<>>)>>) }

\* Number of port elements of a document
MaxPorts == 2

OsNode ==
    Elem("os", NoKey, <<Elem("osmatch", [name |-> "Linux 5.x"], <<>>),
                        Elem("osmatch", [name |-> "Linux 4.x"], <<>>)>>)

HostNodes ==
    {Elem("host", NoKey, (st \o pt) \o os) :
        st \in {<<>>} \cup {<<s>> : s \in StatusNodes},
        pt \in {<<>>} \cup {<<Elem("ports", NoKey, ps)>> :
                               ps \in UNION {[1..n -> PortNodes] : n \in 0..MaxPorts}},
        os \in {<<>>, <<OsNode>>}}

\* The XML file of a job: absent, present with text ET.parse rejects, or
\* present with a document; exit is how the process of the job ended.
Documents ==
    {[exists |-> e, ok |-> FALSE, root |-> Elem("nmaprun", NoKey, <<>>), exit |-> x] :
        e \in BOOLEAN, x \in {"exit0", "exit1"}}
        \cup {[exists |-> TRUE, ok |-> TRUE, root |-> Elem("nmaprun", NoKey, <<>>), exit |-> x] :
                 x \in {"exit0", "exit1"}}
        \cup {[exists |-> TRUE, ok |-> TRUE, root |-> Elem("nmaprun", NoKey, <<h>>), exit |-> "exit0"] :
                 h \in HostNodes}

InitParser ==
    /\ impl \in {"app", "module"}
    /\ engine = "available"
    /\ Idle
    /\ sweep = NoSweep
    /\ fn = "parse_nmap_xml"
    /\ arg \in Documents
    /\ at = "load"
    /\ ret = <<>>

NextParser == P_Load \/ P_Missing \/ P_Host \/ P_Status \/ P_Ports \/ P_Os \/ P_Update

SpecParser == InitParser /\ [][NextParser]_vars

----------------------------------------------------------------------------
\* The standard output of one job in nmap_scanner.py.  The process writes
\* its lines into a pipe; process.communicate() drains the pipe in the
\* worker, and with a progress callback a monitor thread iterates over the
\* same process.stdout.  arg is the callback flag and the lines the process
\* writes; ret holds the number of lines written so far, the lines in the
\* pipe, whether the write end is closed, the lines communicate() collected
\* and the lines handed to the callback.

\* Number of lines a process writes
MaxOutput == 3

OutputLines == {"Starting Nmap", "Stats: About 50% done"}

NotMonitor ==
    /\ UNCHANGED <<impl, engine, sweep, procs, active_scans, events, session_file, fn, arg>>
    /\ UNCHANGED workerVars
    /\ UNCHANGED cancelVars

\* The nmap process writes its next line (Popen with stdout=PIPE).
M_Write ==
    /\ fn = "communicate"
    /\ at = "waiting"
    /\ ret.written < Len(arg.lines)
    /\ ret' = [ret EXCEPT !.written = @ + 1,
                          !.pipe = Append(@, arg.lines[ret.written + 1])]
    /\ UNCHANGED at
    /\ NotMonitor

\* The process has written everything and exits: the write end closes.
M_Exit ==
    /\ fn = "communicate"
    /\ at = "waiting"
    /\ ret.written = Len(arg.lines)
    /\ ~ret.closed
    /\ ret' = [ret EXCEPT !.closed = TRUE]
    /\ UNCHANGED at
    /\ NotMonitor

\* process.communicate() reads what is in the pipe and keeps it.
M_Communicate ==
    /\ fn = "communicate"
    /\ at = "waiting"
    /\ ret.pipe # <<>>
    /\ ret' = [ret EXCEPT !.stdout = @ \o ret.pipe, !.pipe = <<>>]
    /\ UNCHANGED at
    /\ NotMonitor

\* _monitor_scan_progress, `for line in process.stdout`: the thread, started
\* only `if progress_callback`, reads what is in the pipe and hands every
\* line to the callback.
M_Monitor ==
    /\ fn = "communicate"
    /\ at = "waiting"
    /\ arg.callback
    /\ ret.pipe # <<>>
    /\ ret' = [ret EXCEPT !.monitor = @ \o ret.pipe, !.pipe = <<>>]
    /\ UNCHANGED at
    /\ NotMonitor

\* communicate() returns at end of file with the text it collected:
\* 'stdout': stdout.
M_Return ==
    /\ fn = "communicate"
    /\ at = "waiting"
    /\ ret.closed
    /\ ret.pipe = <<>>
    /\ at' = "returned"
    /\ UNCHANGED ret
    /\ NotMonitor

InitMonitor ==
    /\ impl = "module"
    /\ engine = "available"
    /\ Idle
    /\ sweep = NoSweep
    /\ fn = "communicate"
    /\ arg \in [callback : BOOLEAN,
                lines : UNION {[1..n -> OutputLines] : n \in 0..MaxOutput}]
    /\ at = "waiting"
    /\ ret = [written |-> 0, pipe |-> <<>>, closed |-> FALSE, stdout |-> <<>>,
              monitor |-> <<>>]

NextMonitor == M_Write \/ M_Exit \/ M_Communicate \/ M_Monitor \/ M_Return

SpecMonitor == InitMonitor /\ [][NextMonitor]_vars

----------------------------------------------------------------------------
\* Helpers of the properties.

IsResultKind(k) == k \in {"host_result", "host_error"}

CountKind(seq, K) == Cardinality({k \in DOMAIN seq : seq[k].kind \in K})

CountFor(seq, K, t) ==
    Cardinality({k \in DOMAIN seq : seq[k].kind \in K /\ seq[k].target = t})

NotCancelEvent(e) == e.kind # "scan_cancelled"

\* The events of a session that the batch loop emits.
LoopEvents(s) == SelectSeq(events[s], NotCancelEvent)

WasCancelled(s) == CountKind(events[s], {"scan_cancelled"}) > 0

----------------------------------------------------------------------------
\* C1: if a cancel request succeeds while the job for target i < N of a
\* session is running, the loop exits after that target: no subprocess is
\* spawned and no event is emitted for any target after i.
C1_CancelStopsLoop ==
    \A s \in AllSessions :
        (cancelledAt[s] # 0 /\ cancelledAt[s] < total[s]) =>
            /\ \A k \in DOMAIN events[s] : events[s][k].target <= cancelledAt[s]
            /\ \A i \in TargetIdx : i > cancelledAt[s] => procs[s][i] = "none"

\* C2: every started session eventually has the persisted status 'completed'
\* and exactly one scan_completed event, whatever the jobs and the cancel
\* requests do; scan_completed is never emitted twice; the status never
\* leaves 'completed'.
C2_SessionCompletes ==
    /\ \A s \in {1} :
          (session_file[s].status = "running") ~>
              (/\ session_file[s].status = "completed"
               /\ CountKind(events[s], {"scan_completed"}) = 1)
    /\ [](\A s \in {1} : CountKind(events[s], {"scan_completed"}) <= 1)
    /\ [][\A s \in {1} : session_file[s].status = "completed"
                            => session_file'[s].status = "completed"]_vars

\* A completed session that saw a successful cancel and a job that failed to spawn.
C2_Witness ==
    /\ session_file[1].status = "completed"
    /\ CountKind(events[1], {"scan_completed"}) = 1
    /\ WasCancelled(1)
    /\ \E i \in 1..total[1] : procs[1][i] = "none"

\* C3: a session that is not cancelled finishes with status 'completed' and
\* completed_targets = N, having produced one result per target in list
\* order, whichever jobs exit non-zero or fail to spawn.
C3_FailuresDoNotAbort ==
    \A s \in AllSessions :
        (impl = "app" /\ pc[s] = "done" /\ ~WasCancelled(s)) =>
            /\ session_file[s].status = "completed"
            /\ session_file[s].completed_targets = total[s]
            /\ completed[s] = total[s]
            /\ LET res == SelectSeq(events[s], LAMBDA e : IsResultKind(e.kind))
               IN  /\ Len(res) = total[s]
                   /\ \A k \in 1..Len(res) : res[k].target = k

\* A finished, uncancelled session whose first job exited non-zero and whose
\* second job failed to spawn.
C3_Witness ==
    /\ pc[1] = "done"
    /\ ~WasCancelled(1)
    /\ total[1] >= 2
    /\ procs[1][1] = "exit1"
    /\ procs[1][2] = "none"

\* C4: every target the loop has processed has exactly one result-or-error
\* event, and a target not yet processed has none.
C4_OneResultPerTarget ==
    \A s \in AllSessions : \A i \in TargetIdx :
        CountFor(events[s], {"host_result", "host_error"}, i)
            = IF impl = "app" /\ i < idx[s] THEN 1 ELSE 0

\* Two targets processed: one whose job returned an error result (no process
\* was spawned), one whose job ran to a normal result.
C4_Witness ==
    /\ impl = "app"
    /\ idx[1] = 3
    /\ procs[1][1] = "none"
    /\ procs[1][2] = "exit0"

C6_RegistryBounded ==
    Cardinality({s \in AllSessions : active_scans[s] # 0}) <= MaxConcurrentScans

\* C7: within a session at most one scan subprocess is alive, and the
\* process of a later target exists only once the process of every earlier
\* target has exited.
C7_OneProcessPerSession ==
    \A s \in AllSessions :
        /\ Cardinality({i \in TargetIdx : Alive(procs[s][i])}) <= 1
        /\ \A i, j \in TargetIdx :
              (i < j /\ procs[s][j] # "none") => ~Alive(procs[s][i])

\* The first target's job was cancelled and its process ended by the signal;
\* the second target's process is running.
C7_Witness ==
    /\ cancelledAt[1] = 1
    /\ procs[1][1] = "killed"
    /\ procs[1][2] = "running"

\* C8: when a cancel request that found its job registered with a live
\* process returns, it returns true, the process is no longer running and the
\* job id is absent from the registry.
C8_CancelPostcondition ==
    [][(cpc # "idle" /\ cpc' = "idle" /\ cpre) =>
          (/\ cret' = "true"
           /\ active_scans'[csid] = 0
           /\ ~Alive(procs'[csid][cjob]))]_vars

\* C9: a cancel request for an id that is not in the registry reports
\* not-found, raises nothing, signals no process, emits no event and leaves
\* the registry as it was.
C9_CancelUnknownIsNoop ==
    [][(cpc = "idle" /\ ncancel' # ncancel /\ active_scans[csid'] = 0) =>
          (/\ cret' = "notfound"
           /\ cpc' = "idle"
           /\ UNCHANGED <<procs, events, active_scans, session_file>>)]_vars

\* A request reported not-found while another session's job is registered
\* with a running process.
C9_Witness ==
    /\ cret = "notfound"
    /\ cpc = "idle"
    /\ \E s \in AllSessions :
          s # csid /\ active_scans[s] # 0 /\ procs[s][active_scans[s]] = "running"

\* C10: scan_single_ip never lets an exception out: a failure at any stage
\* (build, spawn, wait, post-processing, cleanup) ends in a returned result
\* with status 'error'.
C10_NoExceptionEscapes ==
    \A s \in AllSessions :
        /\ pc[s] # "raised"
        /\ failed[s] # "none" => (pc[s] = "ret" /\ result[s] = "error")

\* scan_single_ip returned an error result after a failure past the spawn.
C10_Witness ==
    \E s \in AllSessions :
        /\ pc[s] = "ret"
        /\ result[s] = "error"
        /\ failed[s] \in {"wait", "post", "cleanup"}

\* C11: a result built after the process exited carries status 'completed'
\* exactly when the exit code is zero and 'failed' for a non-zero code (or a
\* death by signal); without a cancel request and without a failure of
\* scan_single_ip itself the job returns one of these two, so a non-zero exit
\* is a returned result and not an exception.
C11_ExitCodeStatus ==
    \A s \in AllSessions :
        /\ result[s] = "completed" => procs[s][idx[s]] = "exit0"
        /\ result[s] = "failed" => procs[s][idx[s]] \in {"exit1", "killed"}
        /\ (pc[s] = "ret" /\ failed[s] = "none" /\ ncancel = 0) =>
              /\ procs[s][idx[s]] \in {"exit0", "exit1"}
              /\ result[s] = (IF procs[s][idx[s]] = "exit0" THEN "completed" ELSE "failed")

\* scan_single_ip returns status 'failed' for a process that exited non-zero
\* by itself, no cancel request having been made.
C11_Witness ==
    \E s \in AllSessions :
        /\ pc[s] = "ret"
        /\ failed[s] = "none"
        /\ ncancel = 0
        /\ procs[s][idx[s]] = "exit1"
        /\ result[s] = "failed"

\* C13: a cancel request for a session that has finished (scan_completed
\* emitted) reports not-found, signals no process, emits no event and leaves
\* the registry and the session file as they were, whatever the jobs of the
\* session did.
C13_CancelFinishedIsNoop ==
    [][(cpc = "idle" /\ ncancel' # ncancel /\ pc[csid'] = "done") =>
          (/\ cret' = "notfound"
           /\ cpc' = "idle"
           /\ UNCHANGED <<procs, events, active_scans, session_file>>)]_vars

\* C14: a session in which a cancel request succeeded on the job of a target
\* before the last one finalizes with status 'completed' and
\* completed_targets below total_targets.
C14_CancelledSessionIsPartial ==
    \A s \in AllSessions :
        (pc[s] = "done" /\ cancelledAt[s] # 0 /\ cancelledAt[s] < total[s]) =>
            /\ session_file[s].status = "completed"
            /\ session_file[s].completed_targets < session_file[s].total_targets

\* C15: when the startup check finds that nmap cannot be run, no session is
\* started afterwards and no job gets as far as trying to spawn a process.
C15_EngineCheckIsFatal ==
    ~verify_nmap_installation =>
        \A s \in AllSessions : pc[s] = "idle" /\ failed[s] # "spawn"

\* C12: cleanup_abandoned_scans does not fail, and when it has returned every
\* job that was older than the maximum age is out of the registry with its
\* process no longer alive, while only such jobs were handed to cancel_scan.
C12_SweepRemovesOld ==
    /\ sweep.pc # "raised"
    /\ sweep.pc = "done" =>
          \A s \in sweep.old : active_scans[s] = 0 /\ ~Alive(procs[s][1])
    /\ \A k \in DOMAIN sweep.remove : sweep.remove[k] \in sweep.old

\* The targets the step of process_input adds to ip_list.
Added == SubSeq(ret', Len(ret) + 1, Len(ret'))

\* The usable host addresses of the network at net with n addresses.
UsableHosts(net, n) == IF n <= 2 THEN net..(net + n - 1) ELSE (net + 1)..(net + n - 2)

\* C16: a CIDR line whose network has at most 10000 addresses adds exactly
\* the usable host addresses of the network, ascending, each once, each with
\* empty ports; a CIDR line whose network is larger adds nothing; in both
\* cases what was expanded before stays and the loop moves on to the next line.
C16_CidrExpansion ==
    [][(InLoop /\ IsNetwork(Line)) =>
          /\ at' = at + 1
          /\ SubSeq(ret', 1, Len(ret)) = ret
          /\ IF NumAddresses(Line) > MaxCidrSize
             THEN Added = <<>>
             ELSE /\ \A k \in DOMAIN Added :
                        Added[k].ports = <<>> /\ IsAddress(Added[k].ip)
                  /\ \A k \in 1..(Len(Added) - 1) :
                        AddressValue(Added[k].ip) < AddressValue(Added[k + 1].ip)
                  /\ {AddressValue(Added[k].ip) : k \in DOMAIN Added}
                        = UsableHosts(NetworkAddress(Line), NumAddresses(Line))]_vars

\* The 8190 hosts of 10.0.32.0/19 were added, then nothing for 10.0.64.0/18.
C16_Witness ==
    /\ fn = "process_input"
    /\ at = 3
    /\ arg[1] = Quad(10, 0, 32, 0) \o <<SLASH, 19>>
    /\ arg[2] = Quad(10, 0, 64, 0) \o <<SLASH, 18>>
    /\ Len(ret) = 8190
    /\ ret[1].ip = Quad(10, 0, 32, 1)
    /\ ret[8190].ip = Quad(10, 0, 63, 254)

\* The line is a range A.B.C.D-E or A.B.C.D-W.X.Y.Z with start <= end.
IsForwardRange(line) ==
    /\ ~Has(line, SLASH)
    /\ Has(line, DASH)
    /\ IsAddress(Before(line, DASH))
    /\ \/ IsAddress(After(line, DASH))
       \/ Len(After(line, DASH)) = 1 /\ After(line, DASH)[1] \in 0..255
    /\ AddressValue(Before(line, DASH)) <=
          AddressValue(IF IsAddress(After(line, DASH)) THEN After(line, DASH)
                       ELSE EndOfPartial(Before(line, DASH), After(line, DASH)))

RangeStart(line) == AddressValue(Before(line, DASH))

RangeEnd(line) ==
    AddressValue(IF IsAddress(After(line, DASH)) THEN After(line, DASH)
                 ELSE EndOfPartial(Before(line, DASH), After(line, DASH)))

\* C17: a range line with start <= end adds the addresses from start to end
\* in ascending order, and only the first 1000 of them when the range holds
\* more than 1000.
C17_RangeExpansion ==
    [][(InLoop /\ IsForwardRange(Line)) =>
          /\ at' = at + 1
          /\ Len(Added) = (IF RangeEnd(Line) - RangeStart(Line) + 1 > MaxRangeSize
                           THEN MaxRangeSize
                           ELSE RangeEnd(Line) - RangeStart(Line) + 1)
          /\ \A k \in DOMAIN Added :
                Added[k] = [ip |-> AddressText(RangeStart(Line) + k - 1), ports |-> <<>>]]_vars

\* The line is a CIDR block with more addresses than the cap.
IsOversizedCidr(line) == IsNetwork(line) /\ NumAddresses(line) > MaxCidrSize

\* C18: every non-empty line other than a CIDR block above the cap adds at
\* least one target.
C18_EveryLineContributes ==
    [][(InLoop /\ Line # <<>> /\ ~IsOversizedCidr(Line)) =>
          /\ at' = at + 1
          /\ Len(ret') >= Len(ret) + 1]_vars

\* The boolean options and their flags, in the documented order.
FlagOrder ==
    << <<"scripts", "-sC">>, <<"version_detection", "-sV">>, <<"os_detection", "-O">>,
       <<"skip_ping", "-Pn">>, <<"ping_only", "-sn">>, <<"aggressive", "-A">>,
       <<"verbose", "-v">> >>

C20_HostStatus ==
    (fn = "parse_nmap_xml" /\ at = "returned" /\ arg.ok) =>
        ret.host_status =
            (IF HasChild(arg.root, "host") /\ HasChild(Find(arg.root, "host"), "status")
             THEN Get(Find(Find(arg.root, "host"), "status").attrs, "state", "unknown")
             ELSE "unknown")

\* C24: when a cancel request and the completion of the same job meet, one
\* of the two removes the registry entry and the other finds it absent and
\* does nothing: the worker's removal does not fail (no error result from the
\* cleanup), and the cancel request neither fails on the removed entry nor
\* lets an exception out.
C24_CancelCompletionRace ==
    /\ \A s \in AllSessions : failed[s] # "cleanup"
    /\ cret \notin {"error", "raised"}

\* C25: whenever scan_single_ip has returned, by completion, by its error
\* path or after a cancellation, the registry holds no entry for the job id.
C25_RegisteredOnlyWhileRunning ==
    \A s \in AllSessions : pc[s] = "ret" => active_scans[s] = 0

\* C26: a job whose process was ended by the signal of a cancel request is
\* never reported with status 'completed' or 'failed'.
C26_CancelledJobStatus ==
    \A s \in AllSessions :
        (pc[s] = "ret" /\ idx[s] \in TargetIdx /\ procs[s][idx[s]] = "killed") =>
            result[s] \notin {"completed", "failed"}

\* C27: every live scan subprocess has an entry in active_scans under its
\* session id.
C27_LiveProcessIsRegistered ==
    \A s \in AllSessions : \A i \in TargetIdx :
        Alive(procs[s][i]) => active_scans[s] = i

\* The number of result-or-error events among the first k events.
ResultsBefore(seq, k) ==
    Cardinality({j \in 1..(k - 1) : IsResultKind(seq[j].kind)})

\* C29: the session file starts with status 'running' and 0 completed
\* targets, records k completed targets after the k-th target's step, keeps
\* 0 <= completed_targets <= total_targets, never lowers completed_targets
\* and never changes total_targets; each scan_progress event carries the
\* number of result-or-error events emitted before it.
C29_SnapshotTracksLoop ==
    /\ [](\A s \in AllSessions :
            /\ pc[s] = "start" =>
                  session_file[s] = [status |-> "running", completed_targets |-> 0,
                                     total_targets |-> total[s]]
            /\ session_file[s].status # "none" =>
                  /\ session_file[s].completed_targets \in 0..session_file[s].total_targets
                  /\ session_file[s].total_targets = total[s]
                  /\ session_file[s].completed_targets
                        = CountKind(events[s], {"host_result", "host_error"})
                  /\ idx[s] >= 1 => session_file[s].completed_targets = idx[s] - 1
            /\ \A k \in DOMAIN events[s] :
                  events[s][k].kind = "scan_progress" =>
                      events[s][k].n = ResultsBefore(events[s], k))
    /\ [][\A s \in AllSessions :
            /\ session_file'[s].completed_targets >= session_file[s].completed_targets
            /\ session_file[s].status # "none" =>
                  session_file'[s].total_targets = session_file[s].total_targets]_vars

\* The snapshot of a running two-target session after its first target,
\* whose job ended in an error result; the second progress event is out.
C29_Witness ==
    /\ session_file[1] = [status |-> "running", completed_targets |-> 1, total_targets |-> 2]
    /\ pc[1] = "spawn"
    /\ idx[1] = 2
    /\ procs[1][1] = "none"
    /\ Len(events[1]) = 4

\* C28: any two jobs dispatched into the same scan folder get distinct
\* output basenames.
C28_DistinctBasenames ==
    fn = "scan_folder" =>
        \A i, j \in DOMAIN ret : i # j => ret[i] # ret[j]

\* The port nodes of a document, in document order: the port children of the
\* ports child of the first host.
PortNodesOf(doc) ==
    IF HasChild(doc.root, "host") /\ HasChild(Find(doc.root, "host"), "ports")
    THEN FindAll(Find(Find(doc.root, "host"), "ports"), "port")
    ELSE <<>>

\* The state attribute of a port node is literally 'open'.
IsOpenNode(port) ==
    /\ HasChild(port, "state")
    /\ "state" \in DOMAIN Find(port, "state").attrs
    /\ Find(port, "state").attrs.state = "open"

\* C21: for a well-formed document the services list has one entry per port
\* node, in document order, and open_ports is the number of port nodes whose
\* state attribute is 'open'; a port without a state node or with any other
\* state is not counted.
C21_ServicesAndOpenPorts ==
    (fn = "parse_nmap_xml" /\ at = "returned" /\ arg.ok) =>
        LET nodes == PortNodesOf(arg)
        IN  /\ Len(ret.services) = Len(nodes)
            /\ \A k \in DOMAIN nodes :
                  /\ ret.services[k].port = nodes[k].attrs.portid
                  /\ ret.services[k].protocol = nodes[k].attrs.protocol
            /\ ret.open_ports = Cardinality({k \in DOMAIN nodes : IsOpenNode(nodes[k])})

\* A parsed document with an open port followed by a port without a state
\* node: two entries, one open port.
C21_Witness ==
    /\ fn = "parse_nmap_xml"
    /\ at = "returned"
    /\ arg.ok
    /\ Len(PortNodesOf(arg)) = 2
    /\ IsOpenNode(PortNodesOf(arg)[1])
    /\ ~HasChild(PortNodesOf(arg)[2], "state")
    /\ ret.open_ports = 1
    /\ Len(ret.services) = 2

\* C22: every service entry has the fields service, product and version;
\* for a port node without a service sub-node they hold the empty string.
C22_ServiceFieldsPresent ==
    (fn = "parse_nmap_xml" /\ at = "returned" /\ arg.ok) =>
        \A k \in DOMAIN ret.services :
            /\ {"service", "product", "version"} \subseteq DOMAIN ret.services[k]
            /\ ~HasChild(PortNodesOf(arg)[k], "service") =>
                  /\ ret.services[k].service = ""
                  /\ ret.services[k].product = ""
                  /\ ret.services[k].version = ""

\* The parsed fields at their defaults.
ParsedDefaults(r) ==
    /\ {"host_status", "open_ports", "services", "os_info", "hostnames"} \subseteq DOMAIN r
    /\ r.host_status = "down"
    /\ r.open_ports = 0
    /\ r.services = <<>>
    /\ r.os_info = ""
    /\ r.hostnames = <<>>

\* C23: the result of a job whose XML file is missing or does not parse
\* carries parse_error together with the parsed fields at their defaults,
\* and the result of a job whose XML file parses carries no parse_error.
C23_ParseErrorResult ==
    (fn = "parse_nmap_xml" /\ at = "result") =>
        /\ (~arg.exists \/ ~arg.ok) =>
              /\ "status" \in DOMAIN ret
              /\ "parse_error" \in DOMAIN ret
              /\ ParsedDefaults(ret)
        /\ (arg.exists /\ arg.ok) => "parse_error" \notin DOMAIN ret

\* C30: with or without a progress callback, the stdout text of the result
\* holds every line the process wrote, in order.
C30_StdoutComplete ==
    (fn = "communicate" /\ at = "returned") => ret.stdout = arg.lines

====
